---------------------------- MODULE Spec2Model ----------------------------
(***************************************************************************)
(* A model of create_dataset.py: the lyrics decoder (prepare_mxm_dataset,  *)
(* tuple_to_bow), the relational merger (create_complete_df,               *)
(* import_and_merge_tags), the similarity filter (aggregate_similar,       *)
(* check_evaluation_dataset, prepare_evaluation_dataset) and the split     *)
(* builder (split_sim_scores_id, check_gnn_dataset, create_gnn_dataset).   *)
(*                                                                         *)
(* A Python str is a sequence of one-character strings, so that split,     *)
(* join, rstrip, int() and float() are computed character by character.    *)
(* A Python exception is the value [raised |-> <name>] of a result record. *)
(***************************************************************************)
EXTENDS Integers, Sequences, FiniteSets, TLC

VARIABLES
    pc,            \* position of the running script / function
    err,           \* name of the exception that aborted the run, "" if none
    \* ---- lyrics decoder
    header,        \* the vocabulary line of the .txt file (data.pop(0))
    line,          \* one record line of the .txt file (el)
    words,         \* json.loads(top_words): the vocabulary list
    val_list,      \* the row's words_count cell (list of 'idx:count' strings)
    pos,           \* number of elements of val_list consumed by the for loop
    lyrics,        \* the accumulator / return value of tuple_to_bow
    \* ---- aggregate_similar
    str_list,      \* the raw 'id1,score1,id2,score2,...' string
    sim_list,      \* str_list.split(',')
    res,           \* the list of (song, score) pairs built so far
    \* ---- check_evaluation_dataset
    target,        \* comma-joined neighbor ids
    track_id_list, \* the membership set
    present,       \* the returned comma-joined string
    \* ---- create_complete_df
    df_data,       \* WordCount table: sequence of [track_id, words_count]
    df_meta,       \* metadata table: sequence of [track_id, title]
    tags_df,       \* tags relation: sequence of [track_id, tag]
    full_df,       \* the merged table
    \* ---- prepare_evaluation_dataset and __main__
    songs_data,    \* track_id column of the merged song table
    similar_songs, \* similars_src: sequence of [track_id, target]
    evaluate_df,   \* merge(songs_data, similar_songs)
    reduced_df,    \* the evaluation table being narrowed
    songs_csv,     \* track_id column written to songs_data.csv
    \* ---- create_gnn_dataset
    similar_df,    \* input table: sequence of [track_id, target]
    eval_df,       \* track_id column of the evaluation table
    val_size,      \* <<numerator, denominator>> of the validation fraction
    gnn_df,        \* rows [track_id, similars, sim_scores]
    training,      \* training rows
    validation     \* validation rows

decVars  == <<header, line, words, val_list, pos, lyrics>>
aggVars  == <<str_list, sim_list, res>>
filtVars == <<target, track_id_list, present>>
mrgVars  == <<df_data, df_meta, tags_df, full_df>>
evVars   == <<songs_data, similar_songs, evaluate_df, reduced_df, songs_csv>>
gnnVars  == <<similar_df, eval_df, val_size, gnn_df, training, validation>>
vars     == <<pc, err, decVars, aggVars, filtVars, mrgVars, evVars, gnnVars>>

-----------------------------------------------------------------------------
(* Python built-ins on str and list *)

Whitespace == {" ", "\n"}
Digits     == {"0", "1", "2", "3", "4", "5", "6", "7", "8", "9"}

DigitVal(c) ==
    CASE c = "0" -> 0 [] c = "1" -> 1 [] c = "2" -> 2 [] c = "3" -> 3
      [] c = "4" -> 4 [] c = "5" -> 5 [] c = "6" -> 6 [] c = "7" -> 7
      [] c = "8" -> 8 [] c = "9" -> 9

\* s.split(sep) for a one-character sep: always at least one element
RECURSIVE SplitAcc(_, _, _, _)
SplitAcc(s, sep, i, cur) ==
    IF i > Len(s) THEN <<cur>>
    ELSE IF s[i] = sep THEN <<cur>> \o SplitAcc(s, sep, i + 1, <<>>)
    ELSE SplitAcc(s, sep, i + 1, Append(cur, s[i]))

Split(s, sep) == SplitAcc(s, sep, 1, <<>>)

\* sep.join(l)
RECURSIVE Join(_, _)
Join(sep, l) ==
    IF l = <<>> THEN <<>>
    ELSE IF Len(l) = 1 THEN l[1]
    ELSE l[1] \o <<sep>> \o Join(sep, Tail(l))

\* s.rstrip(): every trailing whitespace character is removed
RECURSIVE RStrip(_)
RStrip(s) ==
    IF s # <<>> /\ s[Len(s)] \in Whitespace THEN RStrip(SubSeq(s, 1, Len(s) - 1))
    ELSE s

RECURSIVE LStrip(_)
LStrip(s) ==
    IF s # <<>> /\ s[1] \in Whitespace THEN LStrip(Tail(s)) ELSE s

Strip(s) == LStrip(RStrip(s))

\* s * n: the empty string for n <= 0
RECURSIVE Repeat(_, _)
Repeat(s, n) == IF n <= 0 THEN <<>> ELSE s \o Repeat(s, n - 1)

\* l[::2] and l[1::2]
EvenItems(l) == [j \in 1..((Len(l) + 1) \div 2) |-> l[2 * j - 1]]
OddItems(l)  == [j \in 1..(Len(l) \div 2) |-> l[2 * j]]

\* zip(a, b): stops at the shorter argument
Min(a, b) == IF a <= b THEN a ELSE b
Zip(a, b) == [j \in 1..Min(Len(a), Len(b)) |-> <<a[j], b[j]>>]

\* l.index(x): position (0-based) of the first occurrence
Index(l, x) == (CHOOSE j \in 1..Len(l) : l[j] = x /\ \A h \in 1..(j - 1) : l[h] # x) - 1

Range(l) == {l[j] : j \in 1..Len(l)}

\* the literal accepted by int(): optional whitespace, optional sign, digits
Unsigned(s) == IF s # <<>> /\ s[1] \in {"+", "-"} THEN Tail(s) ELSE s
AllDigits(s) == s # <<>> /\ \A j \in 1..Len(s) : s[j] \in Digits
IsInt(s) == AllDigits(Unsigned(Strip(s)))

RECURSIVE NatVal(_)
NatVal(s) == IF s = <<>> THEN 0 ELSE 10 * NatVal(SubSeq(s, 1, Len(s) - 1)) + DigitVal(s[Len(s)])

IntVal(s) ==
    LET t == Strip(s)
    IN  IF t[1] = "-" THEN 0 - NatVal(Tail(t)) ELSE NatVal(Unsigned(t))

\* the literal accepted by float(), over the characters the model draws from:
\* optional whitespace, optional sign, digits with at most one point
IsFloat(s) ==
    LET t == Unsigned(Strip(s))
    IN  /\ \A j \in 1..Len(t) : t[j] \in Digits \cup {"."}
        /\ \E j \in 1..Len(t) : t[j] \in Digits
        /\ Cardinality({j \in 1..Len(t) : t[j] = "."}) <= 1

-----------------------------------------------------------------------------
(* Lyrics decoder: prepare_mxm_dataset and tuple_to_bow *)

\* data.pop(0)[1:].split(','): the marker character is cut, the newline is not
top_words(hdr) == Split(Tail(hdr), ",")

\* values = el.split(','); idx, counts = values[:2], values[2:]; idx[1] must exist
row_values(el) ==
    LET values == Split(el, ",")
    IN  IF Len(values) < 2 THEN [raised |-> "IndexError", value |-> <<>>]
        ELSE [raised |-> "", value |-> SubSeq(values, 3, Len(values))]

\* words_list[k] for a Python index k (negative indexes count from the end)
list_getitem(l, k) ==
    IF 0 <= k /\ k < Len(l) THEN [raised |-> "", value |-> l[k + 1]]
    ELSE IF k < 0 /\ 0 - k <= Len(l) THEN [raised |-> "", value |-> l[Len(l) + k + 1]]
    ELSE [raised |-> "IndexError", value |-> <<>>]

\* one pass of the for loop of tuple_to_bow: the text appended to lyrics
bow_step(val, words_list) ==
    LET nums == Split(val, ":")
        first == nums[1]
        last  == nums[Len(nums)]
    IN  IF ~IsInt(first) THEN [raised |-> "ValueError", value |-> <<>>]
        ELSE LET w == list_getitem(words_list, IntVal(first) - 1)
             IN  IF w.raised # "" THEN w
                 ELSE IF ~IsInt(last) THEN [raised |-> "ValueError", value |-> <<>>]
                 ELSE [raised |-> "", value |-> Repeat(w.value \o <<" ">>, IntVal(last))]

RECURSIVE bow_loop(_, _, _)
bow_loop(val_l, words_list, acc) ==
    IF val_l = <<>> THEN [raised |-> "", value |-> acc]
    ELSE LET r == bow_step(val_l[1], words_list)
         IN  IF r.raised # "" THEN r
             ELSE bow_loop(Tail(val_l), words_list, acc \o r.value)

tuple_to_bow(val_l, words_list) ==
    LET r == bow_loop(val_l, words_list, <<>>)
    IN  IF r.raised # "" THEN r ELSE [raised |-> "", value |-> RStrip(r.value)]

-----------------------------------------------------------------------------
(* Values of the variables a specification does not use *)

DecIdle  == /\ header = <<>> /\ line = <<>> /\ words = <<>>
            /\ val_list = <<>> /\ pos = 0 /\ lyrics = <<>>
AggIdle  == str_list = <<>> /\ sim_list = <<>> /\ res = <<>>
FiltIdle == target = <<>> /\ track_id_list = {} /\ present = <<>>
MrgIdle  == df_data = <<>> /\ df_meta = <<>> /\ tags_df = <<>> /\ full_df = <<>>
EvIdle   == /\ songs_data = <<>> /\ similar_songs = <<>> /\ evaluate_df = <<>>
            /\ reduced_df = <<>> /\ songs_csv = <<>>
GnnIdle  == /\ similar_df = <<>> /\ eval_df = <<>> /\ val_size = <<1, 5>>
            /\ gnn_df = <<>> /\ training = <<>> /\ validation = <<>>

\* all sequences over S of length at most n
SeqsUpTo(S, n) == UNION {[1..m -> S] : m \in 0..n}

-----------------------------------------------------------------------------
(* Specification of the lyrics decoder: one header line, one record line *)

MaxTokens == 2

\* vocabulary lines as readlines() returns them: marker, words, newline
HeaderLines ==
    { <<"%", "a", ",", "b", ",", "c", "\n">>,
      <<"%", "a", ",", "b", "\n">>,
      <<"%", "a", ",", ",", "c", "\n">> }

\* 'idx:count' cells, well formed and not
TokenPool ==
    { <<"1", ":", "2">>, <<"3", ":", "1">>, <<"2", ":", "1">>, <<"2", ":", "0">>,
      <<"0", ":", "1">>, <<"-", "1", ":", "1">>, <<"4", ":", "1">>,
      <<"2">>, <<"1", ":", "2", ":", "1">>, <<"a", ":", "1">>,
      <<"1", ":", "a">>, <<"1", ":", "-", "1">> }

\* record lines: 'track_id,mxm_id,idx:cnt,...' and a line with one field only
RecordLines ==
    { Join(",", <<<<"T">>, <<"7">>>> \o toks) \o <<"\n">> : toks \in SeqsUpTo(TokenPool, MaxTokens) }
      \cup { <<"T", "\n">> }

InitDec ==
    /\ pc = "header" /\ err = ""
    /\ header \in HeaderLines
    /\ line \in RecordLines
    /\ words = <<>> /\ val_list = <<>> /\ pos = 0 /\ lyrics = <<>>
    /\ AggIdle /\ FiltIdle /\ MrgIdle /\ EvIdle /\ GnnIdle

\* prepare_mxm_dataset, lines 74-76 (json.dumps/json.loads give the list back)
DecParseHeader ==
    /\ pc = "header"
    /\ words' = top_words(header)
    /\ pc' = "row"
    /\ UNCHANGED <<err, header, line, val_list, pos, lyrics>>
    /\ UNCHANGED <<aggVars, filtVars, mrgVars, evVars, gnnVars>>

\* prepare_mxm_dataset, lines 84-89, then the call of tuple_to_bow on the row
DecParseRow ==
    /\ pc = "row"
    /\ LET r == row_values(line)
       IN  IF r.raised # ""
           THEN pc' = "error" /\ err' = r.raised /\ UNCHANGED val_list
           ELSE pc' = "bow" /\ err' = err /\ val_list' = r.value
    /\ pos' = 0 /\ lyrics' = <<>>
    /\ UNCHANGED <<header, line, words>>
    /\ UNCHANGED <<aggVars, filtVars, mrgVars, evVars, gnnVars>>

\* tuple_to_bow, lines 101-104: one pass of the for loop
BowIter ==
    /\ pc = "bow" /\ pos < Len(val_list)
    /\ LET r == bow_step(val_list[pos + 1], words)
       IN  IF r.raised # ""
           THEN pc' = "error" /\ err' = r.raised /\ UNCHANGED <<pos, lyrics>>
           ELSE pc' = pc /\ err' = err /\ pos' = pos + 1 /\ lyrics' = lyrics \o r.value
    /\ UNCHANGED <<header, line, words, val_list>>
    /\ UNCHANGED <<aggVars, filtVars, mrgVars, evVars, gnnVars>>

\* tuple_to_bow, line 105
BowReturn ==
    /\ pc = "bow" /\ pos = Len(val_list)
    /\ lyrics' = RStrip(lyrics)
    /\ pc' = "done"
    /\ UNCHANGED <<err, header, line, words, val_list, pos>>
    /\ UNCHANGED <<aggVars, filtVars, mrgVars, evVars, gnnVars>>

NextDec == DecParseHeader \/ DecParseRow \/ BowIter \/ BowReturn

SpecDec == InitDec /\ [][NextDec]_vars

(* Claims about the lyrics decoder *)

\* the cell is 'idx:count' with integer idx and count and 1 <= idx <= n
TokenWellFormed(tok, n) ==
    LET parts == Split(tok, ":")
    IN  /\ Len(parts) = 2
        /\ IsInt(parts[1]) /\ IsInt(parts[2])
        /\ 1 <= IntVal(parts[1]) /\ IntVal(parts[1]) <= n

TokenCount(tok) == IntVal(Split(tok, ":")[2])
TokenWord(tok, vocabulary) == vocabulary[IntVal(Split(tok, ":")[1])]

\* the vocabulary word of every cell, count times, in the order of the cells
RECURSIVE ExpandedWords(_, _)
ExpandedWords(cells, vocabulary) ==
    IF cells = <<>> THEN <<>>
    ELSE [j \in 1..TokenCount(cells[1]) |-> TokenWord(cells[1], vocabulary)]
             \o ExpandedWords(Tail(cells), vocabulary)

\* C7: decoding a record fails, and returns no lyrics string, whenever one of
\* its cells is malformed (not 'idx:count', idx or count not an integer, idx
\* outside 1..N): a returned lyrics string implies every cell is well formed.
C7_MalformedCellFails ==
    pc = "done" => \A j \in 1..Len(val_list) : TokenWellFormed(val_list[j], Len(words))

\* C8: for well-formed cells with count >= 0 the returned lyrics are the
\* vocabulary words at the 1-based positions idx, each repeated count times,
\* in the order of the cells, joined by single spaces.
C8_LyricsAreJoinedWords ==
    ( /\ pc = "done"
      /\ \A j \in 1..Len(val_list) :
            TokenWellFormed(val_list[j], Len(words)) /\ TokenCount(val_list[j]) >= 0 )
    => lyrics = Join(" ", ExpandedWords(val_list, words))

\* the loop of the actions computes what the operator tuple_to_bow computes
DecLoopIsTupleToBow ==
    /\ pc = "done" => tuple_to_bow(val_list, words) = [raised |-> "", value |-> lyrics]
    /\ pc = "error" /\ Len(Split(line, ",")) >= 2
         => tuple_to_bow(val_list, words).raised = err

\* C8 on the cases where the last emitted word is not empty and does not end
\* in whitespace: there rstrip removes the one trailing space only.
DecCleanTailJoined ==
    ( /\ pc = "done"
      /\ \A j \in 1..Len(val_list) :
            TokenWellFormed(val_list[j], Len(words)) /\ TokenCount(val_list[j]) >= 0
      /\ LET ws == ExpandedWords(val_list, words)
         IN  ws # <<>> => ( ws[Len(ws)] # <<>> /\ ws[Len(ws)][Len(ws[Len(ws)])] \notin Whitespace ) )
    => lyrics = Join(" ", ExpandedWords(val_list, words))

-----------------------------------------------------------------------------
(* Similarity filter: aggregate_similar and check_evaluation_dataset *)

\* float(score) of one (song, score) pair of zip(sim_list[::2], sim_list[1::2])
agg_pair(pair) ==
    IF IsFloat(pair[2]) THEN [raised |-> "", value |-> pair]
    ELSE [raised |-> "ValueError", value |-> <<>>]

agg_pairs(sim_l) == Zip(EvenItems(sim_l), OddItems(sim_l))

RECURSIVE agg_loop(_, _)
agg_loop(pairs, acc) ==
    IF pairs = <<>> THEN [raised |-> "", value |-> acc]
    ELSE LET r == agg_pair(pairs[1])
         IN  IF r.raised # "" THEN r ELSE agg_loop(Tail(pairs), Append(acc, r.value))

\* the list of (song, score) pairs; the score is kept as its literal
aggregate_similar(s) == agg_loop(agg_pairs(Split(s, ",")), <<>>)

\* sorted(S, key=l.index) for a set S of elements of l
RECURSIVE SortedByIndex(_, _)
SortedByIndex(S, l) ==
    IF S = {} THEN <<>>
    ELSE LET x == CHOOSE y \in S : \A z \in S : Index(l, y) <= Index(l, z)
         IN  <<x>> \o SortedByIndex(S \ {x}, l)

\* position of an id in the order sorted() gives to strings
IdOrder == <<<<>>, <<"1">>, <<"2">>, <<"A">>, <<"B">>, <<"C">>, <<"D">>, <<"E">>>>

RECURSIVE SortedById(_)
SortedById(S) ==
    IF S = {} THEN <<>>
    ELSE LET x == CHOOSE y \in S : \A z \in S : Index(IdOrder, y) <= Index(IdOrder, z)
         IN  <<x>> \o SortedById(S \ {x})

\* check_evaluation_dataset with the key of sorted() forgotten
check_evaluation_dataset_nokey(tgt, ids) ==
    Join(",", SortedById(Range(Split(tgt, ",")) \cap ids))

check_evaluation_dataset(tgt, ids) ==
    LET target_list == Split(tgt, ",")
    IN  Join(",", SortedByIndex(Range(target_list) \cap ids, target_list))

-----------------------------------------------------------------------------
(* Specification of aggregate_similar on one raw string *)

MaxAggTokens == 3

AggTokens == { <<"A">>, <<"B">>, <<"1">>, <<".", "5">> }

InitAgg ==
    /\ pc = "split" /\ err = ""
    /\ str_list \in { Join(",", toks) : toks \in SeqsUpTo(AggTokens, MaxAggTokens) }
    /\ sim_list = <<>> /\ res = <<>>
    /\ DecIdle /\ FiltIdle /\ MrgIdle /\ EvIdle /\ GnnIdle

\* aggregate_similar, lines 191-192
AggSplit ==
    /\ pc = "split"
    /\ sim_list' = Split(str_list, ",")
    /\ res' = <<>>
    /\ pc' = "zip"
    /\ UNCHANGED <<err, str_list, decVars, filtVars, mrgVars, evVars, gnnVars>>

\* aggregate_similar, lines 193-194: one pass of the for loop
AggIter ==
    /\ pc = "zip" /\ Len(res) < Len(agg_pairs(sim_list))
    /\ LET r == agg_pair(agg_pairs(sim_list)[Len(res) + 1])
       IN  IF r.raised # ""
           THEN pc' = "error" /\ err' = r.raised /\ UNCHANGED res
           ELSE pc' = pc /\ err' = err /\ res' = Append(res, r.value)
    /\ UNCHANGED <<str_list, sim_list, decVars, filtVars, mrgVars, evVars, gnnVars>>

\* aggregate_similar, line 195
AggReturn ==
    /\ pc = "zip" /\ Len(res) = Len(agg_pairs(sim_list))
    /\ pc' = "done"
    /\ UNCHANGED <<err, aggVars, decVars, filtVars, mrgVars, evVars, gnnVars>>

NextAgg == AggSplit \/ AggIter \/ AggReturn

SpecAgg == InitAgg /\ [][NextAgg]_vars

\* C5: parsing a raw similarity string fails whenever the number of its
\* comma-separated tokens is odd: a pair list is returned for even counts only.
C5_OddTokenCountFails ==
    pc = "done" => Len(Split(str_list, ",")) % 2 = 0

\* the loop of the actions computes what the operator aggregate_similar computes
AggLoopIsAggregateSimilar ==
    /\ pc = "done" => aggregate_similar(str_list) = [raised |-> "", value |-> res]
    /\ pc = "error" => aggregate_similar(str_list).raised = err

-----------------------------------------------------------------------------
(* Specification of check_evaluation_dataset on one target and one set *)

MaxTargetLen == 4

FiltIds == { <<"A">>, <<"B">>, <<"C">>, <<"D">> }

InitFilt ==
    /\ pc = "call" /\ err = ""
    /\ target \in { Join(",", ids) : ids \in SeqsUpTo(FiltIds, MaxTargetLen) }
    /\ track_id_list \in SUBSET FiltIds
    /\ present = <<>>
    /\ DecIdle /\ AggIdle /\ MrgIdle /\ EvIdle /\ GnnIdle

\* check_evaluation_dataset, lines 203-206
CheckEvaluationDataset ==
    /\ pc = "call"
    /\ present' = check_evaluation_dataset(target, track_id_list)
    /\ pc' = "done"
    /\ UNCHANGED <<err, target, track_id_list, decVars, aggVars, mrgVars, evVars, gnnVars>>

NextFilt == CheckEvaluationDataset

SpecFilt == InitFilt /\ [][NextFilt]_vars

\* the elements of l that are in S, each once, at its first position in l
RECURSIVE StableFilter(_, _, _)
StableFilter(l, S, seen) ==
    IF l = <<>> THEN <<>>
    ELSE IF l[1] \in S /\ l[1] \notin seen
         THEN <<l[1]>> \o StableFilter(Tail(l), S, seen \cup {l[1]})
         ELSE StableFilter(Tail(l), S, seen)

\* C3: check_evaluation_dataset returns exactly the neighbor ids that are in
\* the list and in the membership set, each once, in the order of their first
\* position in the list; [A,B,C,D] with {D,B} gives [B,D].
C3_StableFilter ==
    pc = "done" =>
      /\ present = Join(",", StableFilter(Split(target, ","), track_id_list, {}))
      /\ ( target = <<"A", ",", "B", ",", "C", ",", "D">>
             /\ track_id_list = { <<"D">>, <<"B">> }
           => present = <<"B", ",", "D">> )

\* a list whose ids are not in id order, one of them twice, partly kept
C3_Witness ==
    /\ pc = "done"
    /\ target = <<"D", ",", "A", ",", "D", ",", "B">>
    /\ track_id_list = { <<"B">>, <<"D">> }
    /\ present = <<"D", ",", "B">>

-----------------------------------------------------------------------------
(* Split builder: split_sim_scores_id, check_gnn_dataset, create_gnn_dataset *)

\* mode 1: ",".join(row.split(',')[::2]); any other mode: the [1::2] slice
split_sim_scores_id(row, mode) ==
    IF mode = 1 THEN Join(",", EvenItems(Split(row, ",")))
    ELSE Join(",", OddItems(Split(row, ",")))

\* scores_list.__getitem__ raises IndexError past the end of scores_list
check_gnn_dataset(row, ids) ==
    LET target_list == Split(row.similars, ",")
        scores_list == Split(row.sim_scores, ",")
        kept == SortedByIndex(Range(target_list) \cap ids, target_list)
        scores_to_keep == [j \in 1..Len(kept) |-> Index(target_list, kept[j])]
    IN  IF \E j \in 1..Len(kept) : scores_to_keep[j] >= Len(scores_list)
        THEN [raised |-> "IndexError", value |-> row]
        ELSE [raised |-> "",
              value  |-> [row EXCEPT
                            !.similars = Join(",", kept),
                            !.sim_scores = Join(",", [j \in 1..Len(kept) |->
                                                       scores_list[scores_to_keep[j] + 1]])]]

\* the track_id column of a table, as a set
TrackIds(df) == {df[j].track_id : j \in 1..Len(df)}

\* Python's round(): half to even, of the fraction p/q >= 0
RoundHalfEven(p, q) ==
    LET f == p \div q
        r == p % q
    IN  IF 2 * r < q THEN f
        ELSE IF 2 * r > q THEN f + 1
        ELSE IF f % 2 = 0 THEN f ELSE f + 1

\* df.drop(index): the rows of df at the positions in P, in the order of df
RECURSIVE RowsAt(_, _, _)
RowsAt(df, P, j) ==
    IF j > Len(df) THEN <<>>
    ELSE (IF j \in P THEN <<df[j]>> ELSE <<>>) \o RowsAt(df, P, j + 1)

\* df.apply(check_gnn_dataset, axis=1, track_id_list=ids): the first exception aborts
apply_check_gnn(df, ids) ==
    LET out == [j \in 1..Len(df) |-> check_gnn_dataset(df[j], ids)]
    IN  IF \E j \in 1..Len(df) : out[j].raised # ""
        THEN [raised |-> "IndexError", value |-> df]
        ELSE [raised |-> "", value |-> [j \in 1..Len(df) |-> out[j].value]]

\* df[df['similars'].str.split(",").apply(len) > 0]
nonempty_similars(df) ==
    SelectSeq(df, LAMBDA row : Len(Split(row.similars, ",")) > 0)

-----------------------------------------------------------------------------
(* Specification of create_gnn_dataset *)

MaxPairs == 2

GnnRowIds == << <<"A">>, <<"B">>, <<"C">> >>   \* track_id of the rows of similar_df
GnnIds    == { <<"A">>, <<"B">>, <<"C">> }     \* ids of the neighbors
\* eval_df['track_id']: the rows of similar_df are interchangeable (every row
\* draws from the same targets), so one evaluation set of each size is drawn
GnnEvalSets == { {}, { <<"C">> }, { <<"B">>, <<"C">> }, { <<"A">>, <<"B">>, <<"C">> } }
ScoreLits == << <<"1">>, <<"2">>, <<"3">>, <<"4">> >>
ValSizes  == { <<1, 5>>, <<1, 2>> }            \* val_size: the default 0.2, and 0.5

\* 'id1,score1,id2,score2,...' whose k-th score is the literal of k
PairedTarget(ids) ==
    Join(",", [j \in 1..(2 * Len(ids)) |->
                 IF j % 2 = 1 THEN ids[(j + 1) \div 2] ELSE ScoreLits[j \div 2]])

\* strings with an odd number of tokens: the last id has no score
UnpairedTargets == { <<"A">>, <<"A", ",", "1", ",", "B">> }

GnnTargets == { PairedTarget(ids) : ids \in SeqsUpTo(GnnIds, MaxPairs) } \cup UnpairedTargets

InitGnn ==
    /\ pc = "exclude" /\ err = ""
    /\ similar_df \in { [j \in 1..Len(GnnRowIds) |-> [track_id |-> GnnRowIds[j], target |-> t[j]]] :
                          t \in [1..Len(GnnRowIds) -> GnnTargets] }
    /\ eval_df \in GnnEvalSets
    /\ val_size \in ValSizes
    /\ gnn_df = <<>> /\ training = <<>> /\ validation = <<>>
    /\ DecIdle /\ AggIdle /\ FiltIdle /\ MrgIdle /\ EvIdle

\* create_gnn_dataset with no row removed at line 296
GnnExclude_keepall ==
    /\ pc = "exclude"
    /\ gnn_df' = [j \in 1..Len(similar_df) |->
                    [track_id   |-> similar_df[j].track_id,
                     similars   |-> split_sim_scores_id(similar_df[j].target, 1),
                     sim_scores |-> split_sim_scores_id(similar_df[j].target, 2)]]
    /\ pc' = "sample"
    /\ UNCHANGED <<err, similar_df, eval_df, val_size, training, validation>>
    /\ UNCHANGED <<decVars, aggVars, filtVars, mrgVars, evVars>>

\* create_gnn_dataset, lines 296-301
GnnExclude ==
    /\ pc = "exclude"
    /\ LET kept == SelectSeq(similar_df, LAMBDA row : row.track_id \notin eval_df)
       IN  gnn_df' = [j \in 1..Len(kept) |->
                        [track_id   |-> kept[j].track_id,
                         similars   |-> split_sim_scores_id(kept[j].target, 1),
                         sim_scores |-> split_sim_scores_id(kept[j].target, 2)]]
    /\ pc' = "sample"
    /\ UNCHANGED <<err, similar_df, eval_df, val_size, training, validation>>
    /\ UNCHANGED <<decVars, aggVars, filtVars, mrgVars, evVars>>

\* the draws of df.sample(n): n distinct positions of df, in the order drawn
SampleDraws(df, n) ==
    { d \in [1..n -> 1..Len(df)] : \A i, j \in 1..n : d[i] = d[j] => i = j }

\* create_gnn_dataset, lines 304-305: sample() returns round(frac * len) rows
\* in the order drawn; drop(validation.index) keeps the other rows in the
\* order of gnn_df
GnnSample ==
    /\ pc = "sample"
    /\ \E d \in SampleDraws(gnn_df, RoundHalfEven(val_size[1] * Len(gnn_df), val_size[2])) :
          /\ validation' = [k \in 1..Len(d) |-> gnn_df[d[k]]]
          /\ training' = RowsAt(gnn_df, (1..Len(gnn_df)) \ Range(d), 1)
    /\ pc' = "clean"
    /\ UNCHANGED <<err, similar_df, eval_df, val_size, gnn_df>>
    /\ UNCHANGED <<decVars, aggVars, filtVars, mrgVars, evVars>>

\* lines 309-310 with the membership list ids
GnnCleanWith(ids) ==
    /\ pc = "clean"
    /\ LET tr == apply_check_gnn(training, ids)
           va == apply_check_gnn(validation, ids)
       IN  IF tr.raised # "" \/ va.raised # ""
           THEN pc' = "error" /\ err' = "IndexError" /\ UNCHANGED <<training, validation>>
           ELSE pc' = "filter" /\ err' = err /\ training' = tr.value /\ validation' = va.value
    /\ UNCHANGED <<similar_df, eval_df, val_size, gnn_df>>
    /\ UNCHANGED <<decVars, aggVars, filtVars, mrgVars, evVars>>

\* create_gnn_dataset cleaning against the ids of the whole candidate pool
GnnClean_pool == GnnCleanWith(TrackIds(gnn_df))

\* create_gnn_dataset, lines 308-310: both splits against training['track_id']
GnnClean == GnnCleanWith(TrackIds(training))

\* create_gnn_dataset, lines 312-317: training and validation are what is written
GnnSave ==
    /\ pc = "filter"
    /\ training' = nonempty_similars(training)
    /\ validation' = nonempty_similars(validation)
    /\ pc' = "done"
    /\ UNCHANGED <<err, similar_df, eval_df, val_size, gnn_df>>
    /\ UNCHANGED <<decVars, aggVars, filtVars, mrgVars, evVars>>

NextGnn == GnnExclude \/ GnnSample \/ GnnClean \/ GnnSave

SpecGnn == InitGnn /\ [][NextGnn]_vars

(* Claims about create_gnn_dataset *)

\* the sequence a comma-joined column holds: none for the empty string
NeighborIds(s) == IF s = <<>> THEN <<>> ELSE Split(s, ",")

\* the raw target of the row of similar_df with this track_id
OrigTarget(tid) == (CHOOSE row \in Range(similar_df) : row.track_id = tid).target

Written == Range(training) \cup Range(validation)

\* C1: every neighbor id of every written training row is the track_id of a
\* written training row, whatever rows the sample picked.
C1_NoDanglingTrainingEdges ==
    pc = "done" =>
      \A row \in Range(training) :
        Range(NeighborIds(row.similars)) \subseteq TrackIds(training)

\* a training row that kept an edge to a training row and lost its edge to
\* the validation row
C1_Witness ==
    /\ pc = "done"
    /\ validation # <<>>
    /\ \E row \in Range(training) :
         /\ NeighborIds(row.similars) # <<>>
         /\ Range(EvenItems(NeighborIds(OrigTarget(row.track_id)))) \cap TrackIds(validation) # {}

\* C2: no track_id of the evaluation table is the track_id of a written
\* training or validation row, nor a neighbor id of such a row.
C2_NoLeakage ==
    pc = "done" =>
      \A row \in Written :
        /\ row.track_id \notin eval_df
        /\ Range(NeighborIds(row.similars)) \cap eval_df = {}

\* a row of similar_df is an evaluation row, and a written row that kept a
\* neighbor had that evaluation row among its raw neighbors
C2_Witness ==
    /\ pc = "done"
    /\ TrackIds(similar_df) \cap eval_df # {}
    /\ \E row \in Written :
         /\ NeighborIds(row.similars) # <<>>
         /\ Range(EvenItems(NeighborIds(OrigTarget(row.track_id))))
               \cap TrackIds(similar_df) \cap eval_df # {}

\* C4: in every written row the ids and the scores have equal length, and the
\* score at position i is the score paired in the raw string
\* 'id1,score1,id2,score2,...' with the id at position i (with its first
\* occurrence, when the id occurs more than once).
C4_Parity ==
    pc = "done" =>
      \A row \in Written :
        LET ids == NeighborIds(row.similars)
            scs == NeighborIds(row.sim_scores)
            raw == NeighborIds(OrigTarget(row.track_id))
        IN  /\ Len(ids) = Len(scs)
            /\ \A i \in 1..Len(ids) :
                  \E k \in 1..(Len(raw) \div 2) :
                    /\ raw[2 * k - 1] = ids[i]
                    /\ raw[2 * k] = scs[i]
                    /\ \A h \in 1..(k - 1) : raw[2 * h - 1] # ids[i]

\* the raw string pairs every id with a score
Paired(tgt) == Len(NeighborIds(tgt)) % 2 = 0

\* the written rows whose raw string pairs every id with a score keep the
\* parity: the rows that break it are rows whose raw string ends in an id
PairedRowsKeepParity ==
    pc = "done" =>
      \A row \in Written :
        Paired(OrigTarget(row.track_id)) =>
          LET ids == NeighborIds(row.similars)
              scs == NeighborIds(row.sim_scores)
              raw == NeighborIds(OrigTarget(row.track_id))
          IN  /\ Len(ids) = Len(scs)
              /\ \A i \in 1..Len(ids) :
                    \E k \in 1..(Len(raw) \div 2) :
                      /\ raw[2 * k - 1] = ids[i]
                      /\ raw[2 * k] = scs[i]
                      /\ \A h \in 1..(k - 1) : raw[2 * h - 1] # ids[i]

\* C6: no row written to the training or validation output has an empty
\* 'similars' sequence.
C6_NoEmptyRowsWritten ==
    pc = "done" => \A row \in Written : NeighborIds(row.similars) # <<>>

-----------------------------------------------------------------------------
(* Evaluation set: prepare_evaluation_dataset and its use in __main__ *)

\* The thresholds of lines 228, 242 and 251 are 250, 125 and 106.  Lists of
\* that length are out of reach of exhaustive checking, so the model runs the
\* same comparisons with small thresholds in the same order (raw > kept >
\* final >= 2) and inputs around them.
MinRawPairs == 4      \* stands for 250: pairs of the raw list
MinKept     == 3      \* stands for 125: ids left after the first membership pass
MinFinal    == 2      \* stands for 106: ids left after the second pass

\* pd.merge(left, right, on="track_id"), an inner join: the pairs <<i, j>> of
\* positions with equal keys, in the order of the left keys, then of the right
RECURSIVE merge_from(_, _, _)
merge_from(lkeys, rkeys, i) ==
    IF i > Len(lkeys) THEN <<>>
    ELSE LET hits == SelectSeq([j \in 1..Len(rkeys) |-> j], LAMBDA j : rkeys[j] = lkeys[i])
         IN  [k \in 1..Len(hits) |-> <<i, hits[k]>>] \o merge_from(lkeys, rkeys, i + 1)

merge_pairs(lkeys, rkeys) == merge_from(lkeys, rkeys, 1)

\* the track_id column of a table, as a list
KeyColumn(df) == [j \in 1..Len(df) |-> df[j].track_id]

\* lines 225-232 on one cell: parse, and join the ids of the pairs
clean_list(pairs) == Join(",", [j \in 1..Len(pairs) |-> pairs[j][1]])

\* to_keep2 with no evaluation id removed
to_keep2_all(songs, red) == Range(songs)

\* line 245: set(songs_data.track_id) - set(reduced_df.track_id)
to_keep2(songs, red) == Range(songs) \ TrackIds(red)

\* lines 237-242 and 246-251: filter every target, keep the rows with enough ids
narrow(red, ids, least) ==
    SelectSeq([j \in 1..Len(red) |->
                 [red[j] EXCEPT !.target = check_evaluation_dataset(red[j].target, ids)]],
              LAMBDA row : Len(Split(row.target, ",")) >= least)

-----------------------------------------------------------------------------
(* Specification of prepare_evaluation_dataset and of lines 341-345 *)

EvIdSeq == << <<"A">>, <<"B">>, <<"C">>, <<"D">>, <<"E">> >>
EvRowIds == << <<"A">>, <<"B">> >>           \* tid of the rows of similars_src
EvShapes == {"paired", "twice", "unpaired", "badscore"}

\* n ids of EvIdSeq, cyclically from position o
Window(o, n) == [j \in 1..n |-> EvIdSeq[((o + j - 2) % Len(EvIdSeq)) + 1]]

\* a raw target: the ids of a window, each with the score 1; "twice" names the
\* first id again in the last pair, "unpaired" ends with an id without score,
\* "badscore" gives the last id a score that is no number
RawTarget(o, n, shape) ==
    LET w == Window(o, n)
        ids == IF shape = "twice" THEN [w EXCEPT ![n] = w[1]] ELSE w
        toks == [j \in 1..(2 * n) |-> IF j % 2 = 1 THEN ids[(j + 1) \div 2] ELSE <<"1">>]
    IN  Join(",", CASE shape = "unpaired" -> toks \o << <<"E">> >>
                    [] shape = "badscore" -> [toks EXCEPT ![2 * n] = <<"A">>]
                    [] OTHER -> toks)

EvTargets ==
    { RawTarget(o, n, shape) : o \in 1..Len(EvIdSeq), n \in {MinRawPairs - 1, MinRawPairs},
                                shape \in EvShapes }

InitEv ==
    /\ pc = "merge" /\ err = ""
    /\ songs_data \in { SortedById(S) : S \in SUBSET Range(EvIdSeq) }
    /\ similar_songs \in { [j \in 1..Len(EvRowIds) |-> [track_id |-> EvRowIds[j], target |-> t[j]]] :
                             t \in [1..Len(EvRowIds) -> EvTargets] }
    /\ evaluate_df = <<>> /\ reduced_df = <<>> /\ songs_csv = <<>>
    /\ DecIdle /\ AggIdle /\ FiltIdle /\ MrgIdle /\ GnnIdle

\* prepare_evaluation_dataset, lines 221-224
EvMerge ==
    /\ pc = "merge"
    /\ evaluate_df' = LET hit == merge_pairs(songs_data, KeyColumn(similar_songs))
                      IN  [k \in 1..Len(hit) |-> similar_songs[hit[k][2]]]
    /\ reduced_df' = evaluate_df'
    /\ pc' = "aggregate"
    /\ UNCHANGED <<err, songs_data, similar_songs, songs_csv>>
    /\ UNCHANGED <<decVars, aggVars, filtVars, mrgVars, gnnVars>>

\* prepare_evaluation_dataset, lines 225-232
EvAggregate ==
    /\ pc = "aggregate"
    /\ LET parsed == [j \in 1..Len(reduced_df) |-> aggregate_similar(reduced_df[j].target)]
       IN  IF \E j \in 1..Len(reduced_df) : parsed[j].raised # ""
           THEN pc' = "error" /\ err' = "ValueError" /\ UNCHANGED reduced_df
           ELSE /\ pc' = "first" /\ err' = err
                /\ reduced_df' =
                     LET big == SelectSeq([j \in 1..Len(reduced_df) |->
                                             [track_id |-> reduced_df[j].track_id,
                                              target   |-> parsed[j].value]],
                                          LAMBDA row : Len(row.target) >= MinRawPairs)
                     IN  [j \in 1..Len(big) |-> [big[j] EXCEPT !.target = clean_list(big[j].target)]]
    /\ UNCHANGED <<songs_data, similar_songs, evaluate_df, songs_csv>>
    /\ UNCHANGED <<decVars, aggVars, filtVars, mrgVars, gnnVars>>

\* prepare_evaluation_dataset, lines 235-242
EvFirstPass ==
    /\ pc = "first"
    /\ reduced_df' = narrow(reduced_df, Range(songs_data), MinKept)
    /\ pc' = "second"
    /\ UNCHANGED <<err, songs_data, similar_songs, evaluate_df, songs_csv>>
    /\ UNCHANGED <<decVars, aggVars, filtVars, mrgVars, gnnVars>>

\* prepare_evaluation_dataset, lines 245-256
EvSecondPass ==
    /\ pc = "second"
    /\ reduced_df' = narrow(reduced_df, to_keep2(songs_data, reduced_df), MinFinal)
    /\ pc' = "songs"
    /\ UNCHANGED <<err, songs_data, similar_songs, evaluate_df, songs_csv>>
    /\ UNCHANGED <<decVars, aggVars, filtVars, mrgVars, gnnVars>>

\* __main__, lines 344-345
MainSaveSongs ==
    /\ pc = "songs"
    /\ songs_csv' = SelectSeq(songs_data, LAMBDA tid : tid \notin TrackIds(reduced_df))
    /\ pc' = "done"
    /\ UNCHANGED <<err, songs_data, similar_songs, evaluate_df, reduced_df>>
    /\ UNCHANGED <<decVars, aggVars, filtVars, mrgVars, gnnVars>>

NextEv == EvMerge \/ EvAggregate \/ EvFirstPass \/ EvSecondPass \/ MainSaveSongs

SpecEv == InitEv /\ [][NextEv]_vars

\* the ids of the raw target of the row of evaluate_df with this track_id
RawIds(tid) ==
    EvenItems(Split((CHOOSE row \in Range(evaluate_df) : row.track_id = tid).target, ","))

\* C10: in the final evaluation table every neighbor id is a track_id of the
\* merged song table that is no source track_id of the final evaluation
\* table, hence the track_id of a row written to songs_data.csv.
C10_EvalNeighborsAreSongs ==
    pc = "done" =>
      \A row \in Range(reduced_df) :
        \A id \in Range(NeighborIds(row.target)) :
          /\ id \in Range(songs_data)
          /\ id \notin TrackIds(reduced_df)
          /\ id \in Range(songs_csv)

\* a final evaluation row that lost a raw neighbor which is written to
\* songs_data.csv (a candidate of the first pass dropped by the second), and
\* lost a raw neighbor that is no song at all
C10_Witness ==
    /\ pc = "done"
    /\ \E row \in Range(reduced_df) :
         /\ \E id \in Range(RawIds(row.track_id)) :
              id \in Range(songs_csv) /\ id \notin Range(NeighborIds(row.target))
         /\ \E id \in Range(RawIds(row.track_id)) : id \notin Range(songs_data)

-----------------------------------------------------------------------------
(* Relational merger: create_complete_df and import_and_merge_tags *)

\* import_and_merge_tags with the duplicates kept
drop_duplicates_none(df) == df

\* df.drop_duplicates('track_id'): the first row of every track_id is kept
RECURSIVE drop_duplicates_from(_, _)
drop_duplicates_from(df, seen) ==
    IF df = <<>> THEN <<>>
    ELSE IF df[1].track_id \in seen THEN drop_duplicates_from(Tail(df), seen)
    ELSE <<df[1]>> \o drop_duplicates_from(Tail(df), seen \cup {df[1].track_id})

drop_duplicates(df) == drop_duplicates_from(df, {})

-----------------------------------------------------------------------------
(* Specification of create_complete_df.  The columns mxm_id, title and      *)
(* artist_name are carried along by the code and read by no step; the rows  *)
(* of the model hold the columns the steps read.                            *)

MaxMrgRows == 2

MrgIds   == { <<"A">>, <<"B">> }
MrgWords == << <<"a">>, <<"b", "\n">> >>       \* the vocabulary of '%a,b\n'
\* words_count cells: two that decode, one whose index is past the vocabulary
MrgCells == { << <<"1", ":", "2">> >>, << <<"2", ":", "1">>, <<"1", ":", "1">> >>,
              << <<"3", ":", "1">> >> }
MrgTags  == { "rock", "pop" }

InitMrg ==
    /\ pc = "meta" /\ err = ""
    /\ df_data \in SeqsUpTo([track_id : MrgIds, words_count : MrgCells], MaxMrgRows)
    /\ df_meta \in SeqsUpTo([track_id : MrgIds], MaxMrgRows)
    /\ tags_df \in SeqsUpTo([track_id : MrgIds, tag : MrgTags], MaxMrgRows)
    /\ full_df = <<>>
    /\ words = MrgWords
    /\ header = <<>> /\ line = <<>> /\ val_list = <<>> /\ pos = 0 /\ lyrics = <<>>
    /\ AggIdle /\ FiltIdle /\ EvIdle /\ GnnIdle

\* create_complete_df, lines 134-137
MrgMeta ==
    /\ pc = "meta"
    /\ full_df' = LET hit == merge_pairs(KeyColumn(df_data), KeyColumn(df_meta))
                  IN  [k \in 1..Len(hit) |-> df_data[hit[k][1]]]
    /\ pc' = "lyrics"
    /\ UNCHANGED <<err, df_data, df_meta, tags_df>>
    /\ UNCHANGED <<decVars, aggVars, filtVars, evVars, gnnVars>>

\* create_complete_df, lines 140-142: an exception of tuple_to_bow ends the run
MrgLyrics ==
    /\ pc = "lyrics"
    /\ LET out == [j \in 1..Len(full_df) |-> tuple_to_bow(full_df[j].words_count, words)]
       IN  IF \E j \in 1..Len(full_df) : out[j].raised # ""
           THEN /\ pc' = "error" /\ UNCHANGED full_df
                /\ err' = out[CHOOSE j \in 1..Len(full_df) :
                                 out[j].raised # "" /\ \A h \in 1..(j - 1) : out[h].raised = ""].raised
           ELSE /\ pc' = "tags" /\ err' = err
                /\ full_df' = [j \in 1..Len(full_df) |->
                                 [track_id |-> full_df[j].track_id, lyrics |-> out[j].value]]
    /\ UNCHANGED <<df_data, df_meta, tags_df>>
    /\ UNCHANGED <<decVars, aggVars, filtVars, evVars, gnnVars>>

\* import_and_merge_tags, line 119
MrgTagsJoin ==
    /\ pc = "tags"
    /\ full_df' = LET hit == merge_pairs(KeyColumn(full_df), KeyColumn(tags_df))
                  IN  [k \in 1..Len(hit) |->
                         [track_id |-> full_df[hit[k][1]].track_id,
                          lyrics   |-> full_df[hit[k][1]].lyrics,
                          tag      |-> tags_df[hit[k][2]].tag]]
    /\ pc' = "dedup"
    /\ UNCHANGED <<err, df_data, df_meta, tags_df>>
    /\ UNCHANGED <<decVars, aggVars, filtVars, evVars, gnnVars>>

\* import_and_merge_tags, lines 120-122, and the return of line 147
MrgDedup ==
    /\ pc = "dedup"
    /\ full_df' = drop_duplicates(full_df)
    /\ pc' = "done"
    /\ UNCHANGED <<err, df_data, df_meta, tags_df>>
    /\ UNCHANGED <<decVars, aggVars, filtVars, evVars, gnnVars>>

NextMrg == MrgMeta \/ MrgLyrics \/ MrgTagsJoin \/ MrgDedup

SpecMrg == InitMrg /\ [][NextMrg]_vars

NoTrackTwice(df) == \A i, j \in 1..Len(df) : df[i].track_id = df[j].track_id => i = j

\* the tag of the first row of tags_df with this track_id
FirstTag(tid) ==
    tags_df[CHOOSE j \in 1..Len(tags_df) :
              tags_df[j].track_id = tid /\ \A h \in 1..(j - 1) : tags_df[h].track_id # tid].tag

\* C9 as stated: the returned table has no track_id twice, one tag per
\* track_id (the first), its track_ids are WordCount track_ids, and the
\* WordCount track_ids are metadata track_ids.
C9_SubsetChain ==
    pc = "done" =>
      /\ NoTrackTwice(full_df)
      /\ \A row \in Range(full_df) : row.tag = FirstTag(row.track_id)
      /\ TrackIds(full_df) \subseteq TrackIds(df_data)
      /\ TrackIds(df_data) \subseteq TrackIds(df_meta)

\* C9 amended: the returned table has no track_id twice, one tag per track_id
\* (the first of the tags relation), and its track_ids are track_ids of the
\* WordCount input and of the metadata input (and of the tags input).
C9_NoDuplicateAndSubset ==
    pc = "done" =>
      /\ NoTrackTwice(full_df)
      /\ \A row \in Range(full_df) : row.tag = FirstTag(row.track_id)
      /\ TrackIds(full_df) \subseteq TrackIds(df_data)
      /\ TrackIds(full_df) \subseteq TrackIds(df_meta)
      /\ TrackIds(full_df) \subseteq TrackIds(tags_df)

\* a returned row of a track with two different tags, next to a WordCount
\* track that has no metadata
C9_Witness ==
    /\ pc = "done"
    /\ \E row \in Range(full_df) :
         \E t \in Range(tags_df) : t.track_id = row.track_id /\ t.tag # row.tag
    /\ ~(TrackIds(df_data) \subseteq TrackIds(df_meta))

=============================================================================
